---------------------------- MODULE Spec2Model ----------------------------
(***************************************************************************)
(* A model of bin/weeimport/cumulusimport.py: class CumulusSource, which   *)
(* imports Cumulus monthly log files.                                      *)
(*                                                                         *)
(*   - __init__ resolves the units of four quantities into the CLASS-level *)
(*     dict _header_map, reads the source directory setting, lists the     *)
(*     directory and sorts the monthly logs (lines 89-202);                *)
(*   - period_generator yields the sorted file names and sets the          *)
(*     first_period / last_period flags (lines 296-311);                   *)
(*   - getRawData reads one monthly log, cleans its lines and builds the   *)
(*     field map (lines 249-294).                                          *)
(*                                                                         *)
(* Strings whose characters matter (file names, lines of a log) are        *)
(* sequences of one-character strings, so that slicing, replacing and      *)
(* splitting are computed the way Python computes them.                    *)
(***************************************************************************)
EXTENDS Integers, Sequences, FiniteSets, TLC

VARIABLES
    headerMap,       \* CumulusSource._header_map: field -> its 'units' entry (class attribute)
    others,          \* instances constructed earlier in this process: their declared units
    cfg,             \* cumulus_config_dict of the instance in hand
    decimal,         \* self.decimal
    delimiter,       \* self.delimiter
    map,             \* self.map
    source,          \* self.source has been set from the 'directory' setting
    month_log_list,  \* __init__'s local: what glob.glob returned, in its order
    log_list,        \* self.log_list
    pc,              \* where the instance in hand is in its life
    err,             \* the exception that ended construction or the run
    idx,             \* period_generator's position in self.log_list
    first_period,    \* self.first_period
    last_period,     \* self.last_period
    yielded,         \* what period_generator has yielded so far, with the flags at each yield
    raw_data,        \* getRawData's local _raw_data (f.readlines())
    clean_data,      \* getRawData's local _clean_data
    reader,          \* what the last getRawData call returned (the lines its DictReader reads)
    mapBuilds,       \* number of times line 292 has assigned self.map
    globCalls,       \* number of directory listings made (line 196)
    fileOpens        \* number of period files opened (line 266)

vars == <<headerMap, others, cfg, decimal, delimiter, map, source, month_log_list,
          log_list, pc, err, idx, first_period, last_period, yielded, raw_data,
          clean_data, reader, mapBuilds, globCalls, fileOpens>>

(***************************************************************************)
(* Bounds of the model.                                                    *)
(***************************************************************************)
\* files in the source directory that match the glob
MaxFiles == 3
\* lines in a monthly log whose cleanup is checked
MaxRows == 2
\* characters in such a log, newlines aside
MaxChars == 3
\* CumulusSource instances constructed in one process
MaxInstances == 2

(***************************************************************************)
(* Python values.                                                          *)
(***************************************************************************)
\* str(None): what dict.get returns for a key that is not there
None == "None"
\* a field of _header_map that has no 'units' key
NoUnits == "<no units key>"
\* self.map = None
NoMap == << >>
\* no exception
NoError == [kind |-> "none", quantity |-> "", reason |-> "", path |-> << >>]

Error(kind, quantity, reason, path) ==
    [kind |-> kind, quantity |-> quantity, reason |-> reason, path |-> path]

(***************************************************************************)
(* Characters and strings.                                                 *)
(***************************************************************************)
Digits == <<"0", "1", "2", "3", "4", "5", "6", "7", "8", "9">>
UpperCase == <<"A", "B", "C", "D", "E", "F", "G", "H", "I", "J", "K", "L", "M",
               "N", "O", "P", "Q", "R", "S", "T", "U", "V", "W", "X", "Y", "Z">>
LowerCase == <<"a", "b", "c", "d", "e", "f", "g", "h", "i", "j", "k", "l", "m",
               "n", "o", "p", "q", "r", "s", "t", "u", "v", "w", "x", "y", "z">>

\* ord(c), for the characters a year fragment of the model is made of
Ord(c) == 47 + (CHOOSE i \in 1..10 : Digits[i] = c)

\* c.lower()
LowerChar(c) ==
    IF \E i \in 1..26 : UpperCase[i] = c
    THEN LowerCase[CHOOSE i \in 1..26 : UpperCase[i] = c]
    ELSE c

Lower(s) == [i \in 1..Len(s) |-> LowerChar(s[i])]

\* a < b for two Python strings: by character code, a proper prefix first
RECURSIVE StrLess(_, _)
StrLess(a, b) ==
    IF b = << >> THEN FALSE
    ELSE IF a = << >> THEN TRUE
    ELSE IF Head(a) = Head(b) THEN StrLess(Tail(a), Tail(b))
    ELSE Ord(Head(a)) < Ord(Head(b))

\* s[lo:hi] with negative offsets lo < hi <= 0 counted from the end
SliceFromEnd(s, lo, hi) == SubSeq(s, Len(s) + lo + 1, Len(s) + hi)


(***************************************************************************)
(* The period catalog: file names, the sort key, the sort.                 *)
(***************************************************************************)
LogSuffix == <<"l", "o", "g", ".", "t", "x", "t">>

\* the name of a file that matches '?????log.txt': five characters, then log.txt
LogName(five) == five \o LogSuffix

\* The files a source directory of the model may hold.  Jan16 and jan16 are
\* two files of a case-sensitive file system; debuglog.txt matches the glob
\* pattern and is no monthly log.
FileNames ==
    { LogName(<<"D", "e", "c", "1", "5">>),
      LogName(<<"J", "a", "n", "1", "6">>),
      LogName(<<"j", "a", "n", "1", "6">>),
      LogName(<<"F", "e", "b", "1", "6">>),
      LogName(<<"d", "e", "b", "u", "g">>) }

\* the abbreviated month names time.strptime knows for '%b', lower-cased
MonthAbbr ==
    << <<"j", "a", "n">>, <<"f", "e", "b">>, <<"m", "a", "r">>, <<"a", "p", "r">>,
       <<"m", "a", "y">>, <<"j", "u", "n">>, <<"j", "u", "l">>, <<"a", "u", "g">>,
       <<"s", "e", "p">>, <<"o", "c", "t">>, <<"n", "o", "v">>, <<"d", "e", "c">> >>

\* fn[-9:-7]: the two characters before log.txt
YearFragment(fn) == SliceFromEnd(fn, -9, -7)

\* fn[-12:-9]: the three characters before those
MonthFragment(fn) == SliceFromEnd(fn, -12, -9)

\* time.strptime(s, '%b') succeeds: the match ignores case
StrptimeOk(s) == \E m \in 1..12 : MonthAbbr[m] = Lower(s)

\* time.strptime(s, '%b').tm_mon
TmMon(s) == CHOOSE m \in 1..12 : MonthAbbr[m] = Lower(s)

\* the element (fn, fn[-9:-7], tm_mon) of _temp
TempEntry(fn) == <<fn, YearFragment(fn), TmMon(MonthFragment(fn))>>

\* a faulty variant: the month first, the year fragment second
KeyLess_MonthFirst(a, b) ==
    \/ a[3] < b[3]
    \/ a[3] = b[3] /\ StrLess(a[2], b[2])

\* (a[1], a[2]) < (b[1], b[2]) for the key lambda el: (el[1], el[2]) (0-based):
\* the year fragment as a string first, the month number second
KeyLess(a, b) ==
    \/ StrLess(a[2], b[2])
    \/ a[2] = b[2] /\ a[3] < b[3]

\* one step of a stable sort: el goes before the first element whose key is
\* greater, hence after every element whose key is equal
RECURSIVE InsertByKey(_, _)
InsertByKey(s, el) ==
    IF s = << >> THEN <<el>>
    ELSE IF KeyLess(el, Head(s)) THEN <<el>> \o s
    ELSE <<Head(s)>> \o InsertByKey(Tail(s), el)

\* sorted(_temp, key = ...): Python's sort is stable
RECURSIVE SortedByKey(_)
SortedByKey(s) ==
    IF s = << >> THEN << >>
    ELSE InsertByKey(SortedByKey(SubSeq(s, 1, Len(s) - 1)), s[Len(s)])

\* [a[0] for a in sorted(_temp, key = ...)]
SortedLogList(listing) ==
    LET temp == [i \in 1..Len(listing) |-> TempEntry(listing[i])]
        srt  == SortedByKey(temp)
    IN  [i \in 1..Len(srt) |-> srt[i][1]]

\* the orders in which glob.glob may return the files of a directory
Listings(files) ==
    { l \in [1..Cardinality(files) -> files] :
        \A i, j \in 1..Cardinality(files) : i # j => l[i] # l[j] }

\* a faulty variant: the months are compared, not the file names
IsFirst_SameMonth(month, list) ==
    /\ YearFragment(month) = YearFragment(list[1])
    /\ TmMon(MonthFragment(month)) = TmMon(MonthFragment(list[1]))

\* month == self.log_list[0]
IsFirst(month, list) == month = list[1]

\* month == self.log_list[-1]
IsLast(month, list) == month = list[Len(list)]

(***************************************************************************)
(* The configuration and the class-level header map.                       *)
(***************************************************************************)
Quantities == <<"temperature", "pressure", "rain", "speed">>

\* rain_units_dict
rain_units_dict == [u \in {"inch", "mm"} |-> IF u = "inch" THEN "inch_per_hour" ELSE "mm_per_hour"]

\* the keys of weewx.units.default_unit_format_dict the model uses: one table
\* for the units of every quantity
default_unit_format_dict ==
    {"degree_C", "degree_F", "hPa", "inHg", "mbar", "inch", "mm",
     "km_per_hour", "mile_per_hour"}

\* the list the pressure unit is looked up in
PressureUnits == {"inHg", "mbar", "hPa"}

\* the set a quantity's declared unit is looked up in
AllowedUnits(q) ==
    CASE q = "temperature" -> default_unit_format_dict
      [] q = "pressure"    -> PressureUnits
      [] q = "rain"        -> DOMAIN rain_units_dict
      [] q = "speed"       -> default_unit_format_dict

\* a faulty variant: a quantity with no declared unit passes (and None is bound)
UnitAccepted_OrUndeclared(q, u) == u \in AllowedUnits(q) \/ u = None

\* the test each declared unit goes through: temp_u in ..., press_u in ...
UnitAccepted(q, u) == u \in AllowedUnits(q)

\* the fields of _header_map each quantity's unit is written to
TemperatureFields == {"cur_out_temp", "curr_in_temp", "cur_dewpoint",
                      "cur_heatindex", "cur_windchill", "cur_app_temp"}
PressureFields == {"cur_slp"}
SpeedFields == {"avg_wind_speed", "gust_wind_speed"}

\* _header_map as the class statement leaves it: the 'units' entry of each field
InitialHeaderMap ==
    [f \in TemperatureFields \cup PressureFields \cup SpeedFields
           \cup {"midnight_rain", "cur_rain_rate", "datetime", "avg_wind_bearing",
                 "cur_out_hum", "cur_in_hum", "cur_solar", "cur_uv"} |->
        CASE f = "datetime"         -> "unix_epoch"
          [] f = "avg_wind_bearing" -> "degree_compass"
          [] f = "cur_out_hum"      -> "percent"
          [] f = "cur_in_hum"       -> "percent"
          [] f = "cur_solar"        -> "watt_per_meter_squared"
          [] f = "cur_uv"           -> "uv_index"
          [] OTHER                  -> NoUnits]

\* self._header_map[f]['units'] = u for each f of fields
SetUnits(hm, fields, u) == [f \in DOMAIN hm |-> IF f \in fields THEN u ELSE hm[f]]

\* What a [Units] section may declare for each quantity: nothing (None), units
\* its own check accepts, and units it rejects.  "mm" is no unit of speed
\* and is a key of default_unit_format_dict.
Declarations ==
    [temperature : {None, "degree_C", "degree_F", "furlong"},
     pressure    : {None, "hPa", "degree_C"},
     rain        : {"mm", "inch", "furlong"},
     speed       : {None, "km_per_hour", "mm"}]

\* the configurations an instance may be constructed with: with or without a
\* [Units] section, with or without 'directory', 'decimal' and 'delimiter'
Configs ==
    [hasUnits : {TRUE}, units : Declarations, hasDirectory : BOOLEAN,
     decimal : {None, ","}, delimiter : {None, ";", " "}]
    \cup
    [hasUnits : {FALSE}, units : {[q \in {"temperature", "pressure", "rain", "speed"} |-> None]},
     hasDirectory : BOOLEAN, decimal : {None, ","}, delimiter : {None, ";", " "}]

\* dict.get(key, default)
GetOr(value, default) == IF value = None THEN default ELSE value

(***************************************************************************)
(* The cleanup of the lines of a monthly log (getRawData, lines 273-286).  *)
(***************************************************************************)
\* s.replace(old, new) for one-character old and new
ReplaceAll(s, old, new) == [i \in 1..Len(s) |-> IF s[i] = old THEN new ELSE s[i]]

\* s.replace(old, new, 1) for one-character old and new
ReplaceFirst(s, old, new) ==
    IF \E i \in 1..Len(s) : s[i] = old
    THEN LET first == CHOOSE i \in 1..Len(s) : s[i] = old /\ \A j \in 1..(i - 1) : s[j] # old
         IN  [i \in 1..Len(s) |-> IF i = first THEN new ELSE s[i]]
    ELSE s

\* s.split(d) for a one-character d
RECURSIVE Split(_, _)
Split(s, d) ==
    IF \E i \in 1..Len(s) : s[i] = d
    THEN LET first == CHOOSE i \in 1..Len(s) : s[i] = d /\ \A j \in 1..(i - 1) : s[j] # d
         IN  <<SubSeq(s, 1, first - 1)>> \o Split(SubSeq(s, first + 1, Len(s)), d)
    ELSE <<s>>

\* a faulty variant: only the first separator becomes a full stop
NormaliseDecimal_First(row, dec) == ReplaceFirst(row, dec, ".")

\* _line = _row.replace(self.decimal, '.')
NormaliseDecimal(row, dec) == ReplaceAll(row, dec, ".")

\* _line != "\n"
IsKept(line) == line # <<"\n">>

\* a faulty variant: the count of 1 is left out
MergeDateTime_EveryDelimiter(line, delim) == ReplaceAll(line, delim, " ")

\* _datetime_line = _line.replace(self.delimiter, ' ', 1)
MergeDateTime(line, delim) == ReplaceFirst(line, delim, " ")

\* the loop over _raw_data: the list _clean_data it builds
RECURSIVE CleanData(_, _, _)
CleanData(rows, dec, delim) ==
    IF rows = << >> THEN << >>
    ELSE LET line == NormaliseDecimal(Head(rows), dec)
             rest == CleanData(Tail(rows), dec, delim)
         IN  IF IsKept(line) THEN <<MergeDateTime(line, delim)>> \o rest ELSE rest

\* the field map parseMap returns: a unit for each source field, as the
\* header map binds them when it is called
ParseMap(hm) == [f \in DOMAIN hm |-> hm[f]]

\* the characters a line of the model is made of, before its newline
Alphabet == {"5", ",", ";", " "}

\* the lines of n characters and a newline
Lines(n) == { Append(body, "\n") : body \in [1..n -> Alphabet] }

\* the contents of a file: at most rows lines of at most chars characters in all
RECURSIVE Contents(_, _)
Contents(chars, rows) ==
    IF rows = 0 THEN {<< >>}
    ELSE {<< >>} \cup
         UNION { { <<l>> \o rest : l \in Lines(n), rest \in Contents(chars - n, rows - 1) }
                 : n \in 0..chars }

\* the contents of the monthly logs the run reads: an empty file, a file of
\* one record, a file of an empty line and a record
RunContents ==
    { << >>,
      << <<"5", ",", "5", ";", "5", "\n">> >>,
      << <<"\n">>, <<"5", ";", "5", ",", "5", "\n">> >> }

\* what the file system answers when getRawData looks for a period file
FileStates == {"readable", "missing", "unreadable"}

(***************************************************************************)
(* The state before any instance is constructed.                           *)
(***************************************************************************)
SourceDirectory == <<"/", "l", "o", "g", "s">>

NoConfig ==
    [hasUnits |-> FALSE, units |-> [q \in {"temperature", "pressure", "rain", "speed"} |-> None],
     hasDirectory |-> FALSE, decimal |-> None, delimiter |-> None]

Init ==
    /\ headerMap = InitialHeaderMap
    /\ others = << >>
    /\ cfg = NoConfig
    /\ decimal = "."
    /\ delimiter = ","
    /\ map = NoMap
    /\ source = << >>
    /\ month_log_list = << >>
    /\ log_list = << >>
    /\ pc = "new"
    /\ err = NoError
    /\ idx = 0
    /\ first_period = FALSE
    /\ last_period = FALSE
    /\ yielded = << >>
    /\ raw_data = << >>
    /\ clean_data = << >>
    /\ reader = << >>
    /\ mapBuilds = 0
    /\ globCalls = 0
    /\ fileOpens = 0

(***************************************************************************)
(* __init__, a step for each of its checks (lines 89-202).                 *)
(***************************************************************************)
\* raise e: the instance in hand is lost
Raise(e) == pc' = "failed" /\ err' = e

\* lines 89-120: the attributes set before the units are read
Construct ==
    /\ pc = "new"
    /\ \E c \in Configs :
         /\ cfg' = c
         /\ decimal' = GetOr(c.decimal, ".")
         /\ delimiter' = GetOr(c.delimiter, ",")
    /\ map' = NoMap
    /\ pc' = "temperature"
    /\ UNCHANGED <<headerMap, others, source, month_log_list, log_list, err, idx,
                   first_period, last_period, yielded, raw_data, clean_data, reader,
                   mapBuilds, globCalls, fileOpens>>

\* what every unit check leaves alone
UnitCheckFrame ==
    UNCHANGED <<others, cfg, decimal, delimiter, map, source, month_log_list, log_list,
                idx, first_period, last_period, yielded, raw_data, clean_data, reader,
                mapBuilds, globCalls, fileOpens>>

\* lines 128-145
ResolveTemperature ==
    /\ pc = "temperature"
    /\ IF ~cfg.hasUnits
       THEN Raise(Error("UnitError", "temperature", "No units specified", << >>))
            /\ UNCHANGED headerMap
       ELSE LET temp_u == cfg.units.temperature
            IN  IF UnitAccepted("temperature", temp_u)
                THEN /\ headerMap' = SetUnits(headerMap, TemperatureFields, temp_u)
                     /\ pc' = "pressure"
                     /\ UNCHANGED err
                ELSE Raise(Error("UnitError", "temperature", "Unknown units", << >>))
                     /\ UNCHANGED headerMap
    /\ UnitCheckFrame

\* lines 146-158
ResolvePressure ==
    /\ pc = "pressure"
    /\ IF ~cfg.hasUnits
       THEN Raise(Error("UnitError", "pressure", "No units specified", << >>))
            /\ UNCHANGED headerMap
       ELSE LET press_u == cfg.units.pressure
            IN  IF UnitAccepted("pressure", press_u)
                THEN /\ headerMap' = SetUnits(headerMap, PressureFields, press_u)
                     /\ pc' = "rain"
                     /\ UNCHANGED err
                ELSE Raise(Error("UnitError", "pressure", "Unknown units", << >>))
                     /\ UNCHANGED headerMap
    /\ UnitCheckFrame

\* lines 159-173
ResolveRain ==
    /\ pc = "rain"
    /\ IF ~cfg.hasUnits
       THEN Raise(Error("UnitError", "rain", "No units specified", << >>))
            /\ UNCHANGED headerMap
       ELSE LET rain_u == cfg.units.rain
            IN  IF UnitAccepted("rain", rain_u)
                THEN /\ headerMap' = SetUnits(SetUnits(headerMap, {"midnight_rain"}, rain_u),
                                              {"cur_rain_rate"}, rain_units_dict[rain_u])
                     /\ pc' = "speed"
                     /\ UNCHANGED err
                ELSE Raise(Error("UnitError", "rain", "Unknown units", << >>))
                     /\ UNCHANGED headerMap
    /\ UnitCheckFrame

\* lines 174-187
ResolveSpeed ==
    /\ pc = "speed"
    /\ IF ~cfg.hasUnits
       THEN Raise(Error("UnitError", "speed", "No units specified", << >>))
            /\ UNCHANGED headerMap
       ELSE LET speed_u == cfg.units.speed
            IN  IF UnitAccepted("speed", speed_u)
                THEN /\ headerMap' = SetUnits(headerMap, SpeedFields, speed_u)
                     /\ pc' = "directory"
                     /\ UNCHANGED err
                ELSE Raise(Error("UnitError", "speed", "Unknown units", << >>))
                     /\ UNCHANGED headerMap
    /\ UnitCheckFrame

\* a faulty variant: the setting is not looked at before the directory is listed
GetSourceDirectory_Unchecked ==
    /\ pc = "directory"
    /\ source' = SourceDirectory
    /\ pc' = "glob"
    /\ UNCHANGED <<headerMap, others, cfg, decimal, delimiter, map, month_log_list,
                   log_list, err, idx, first_period, last_period, yielded, raw_data,
                   clean_data, reader, mapBuilds, globCalls, fileOpens>>

\* lines 189-193
GetSourceDirectory ==
    /\ pc = "directory"
    /\ IF cfg.hasDirectory
       THEN source' = SourceDirectory /\ pc' = "glob" /\ UNCHANGED err
       ELSE Raise(Error("ViolatedPrecondition", "", "directory not specified", << >>))
            /\ UNCHANGED source
    /\ UNCHANGED <<headerMap, others, cfg, decimal, delimiter, map, month_log_list,
                   log_list, idx, first_period, last_period, yielded, raw_data,
                   clean_data, reader, mapBuilds, globCalls, fileOpens>>

\* the directories glob.glob may find: at most MaxFiles files
Directories == { files \in SUBSET FileNames : Cardinality(files) <= MaxFiles }

\* lines 195-202: the listing (of any directory, in any order), the sort, the
\* check that a log was found
ListMonthlyLogs ==
    /\ pc = "glob"
    /\ \E files \in Directories : \E listing \in Listings(files) :
         /\ month_log_list' = listing
         /\ IF \E i \in 1..Len(listing) : ~StrptimeOk(MonthFragment(listing[i]))
            THEN Raise(Error("ValueError", "", "time data does not match format '%b'",
                             << >>))
                 /\ UNCHANGED log_list
            ELSE /\ log_list' = SortedLogList(listing)
                 /\ IF Len(listing) = 0
                    THEN Raise(Error("WeeImportIOError", "",
                                     "No Cumulus monthly logs found", source))
                    ELSE pc' = "constructed" /\ UNCHANGED err
    /\ globCalls' = globCalls + 1
    /\ UNCHANGED <<headerMap, others, cfg, decimal, delimiter, map, source, idx,
                   first_period, last_period, yielded, raw_data, clean_data, reader,
                   mapBuilds, fileOpens>>

(***************************************************************************)
(* period_generator (lines 296-311).                                       *)
(***************************************************************************)
\* one pass of the for loop up to its yield
PeriodGeneratorYield ==
    /\ pc \in {"constructed", "processed"}
    /\ idx < Len(log_list)
    /\ LET month == log_list[idx + 1]
       IN  /\ first_period' = IsFirst(month, log_list)
           /\ last_period' = IsLast(month, log_list)
           /\ yielded' = Append(yielded, [period |-> month,
                                          first_period |-> IsFirst(month, log_list),
                                          last_period |-> IsLast(month, log_list)])
    /\ idx' = idx + 1
    /\ pc' = "yielded"
    /\ UNCHANGED <<headerMap, others, cfg, decimal, delimiter, map, source,
                   month_log_list, log_list, err, raw_data, clean_data, reader,
                   mapBuilds, globCalls, fileOpens>>

\* the list is exhausted: the generator returns
PeriodGeneratorReturn ==
    /\ pc \in {"constructed", "processed"}
    /\ idx = Len(log_list)
    /\ pc' = "done"
    /\ UNCHANGED <<headerMap, others, cfg, decimal, delimiter, map, source,
                   month_log_list, log_list, err, idx, first_period, last_period,
                   yielded, raw_data, clean_data, reader, mapBuilds, globCalls,
                   fileOpens>>

(***************************************************************************)
(* getRawData (lines 249-294), called with the period just yielded.        *)
(***************************************************************************)
\* a faulty variant: the map is built for the first period only
MapAssigned_OnceOnly(m) == m = NoMap

\* line 292 assigns self.map, whatever it holds
MapAssigned(m) == TRUE

\* os.path.isfile(period)
IsFile(fstat) == fstat # "missing"

\* getRawData(period) for the period just yielded; the file system answers
\* fstat for it and, if it can be read, the file holds one of contents
GetRawData(contents) ==
    /\ pc = "yielded"
    /\ \E fstat \in FileStates : \E lines \in contents :
         LET period == log_list[idx]
         IN  IF ~IsFile(fstat)
             THEN /\ Raise(Error("WeeImportIOError", "", "could not be found", period))
                  /\ reader' = << >>
                  /\ UNCHANGED <<raw_data, clean_data, map, mapBuilds, fileOpens>>
             ELSE IF fstat = "unreadable"
             THEN /\ Raise(Error("IOError", "", "Permission denied", period))
                  /\ reader' = << >>
                  /\ fileOpens' = fileOpens + 1
                  /\ UNCHANGED <<raw_data, clean_data, map, mapBuilds>>
             ELSE /\ fileOpens' = fileOpens + 1
                  /\ raw_data' = lines
                  /\ clean_data' = CleanData(lines, decimal, delimiter)
                  /\ reader' = CleanData(lines, decimal, delimiter)
                  /\ map' = IF MapAssigned(map) THEN ParseMap(headerMap) ELSE map
                  /\ mapBuilds' = IF MapAssigned(map) THEN mapBuilds + 1 ELSE mapBuilds
                  /\ pc' = "processed"
                  /\ UNCHANGED err
    /\ UNCHANGED <<headerMap, others, cfg, decimal, delimiter, source, month_log_list,
                   log_list, idx, first_period, last_period, yielded, globCalls>>

(***************************************************************************)
(* The life of one instance: construction, then the run over its periods.  *)
(***************************************************************************)
Next ==
    \/ Construct
    \/ ResolveTemperature
    \/ ResolvePressure
    \/ ResolveRain
    \/ ResolveSpeed
    \/ GetSourceDirectory
    \/ ListMonthlyLogs
    \/ PeriodGeneratorYield
    \/ PeriodGeneratorReturn
    \/ GetRawData(RunContents)

Spec == Init /\ [][Next]_vars

(***************************************************************************)
(* Several instances in one process: they share the class attribute        *)
(* _header_map (lines 66-87), which each __init__ writes to.               *)
(***************************************************************************)
\* the instance in hand is kept by its owner (or lost, if its construction
\* failed) and the process goes on to construct another
ConstructAnother ==
    /\ pc \in {"constructed", "failed"}
    /\ Len(others) + 1 < MaxInstances
    /\ others' = Append(others, [constructed |-> pc = "constructed",
                                 units |-> IF pc = "constructed" THEN cfg.units
                                           ELSE NoConfig.units])
    /\ cfg' = NoConfig
    /\ decimal' = "."
    /\ delimiter' = ","
    /\ map' = NoMap
    /\ source' = << >>
    /\ month_log_list' = << >>
    /\ log_list' = << >>
    /\ pc' = "new"
    /\ err' = NoError
    /\ UNCHANGED <<headerMap, idx, first_period, last_period, yielded, raw_data,
                   clean_data, reader, mapBuilds, globCalls, fileOpens>>

NextInstances ==
    \/ Construct
    \/ ResolveTemperature
    \/ ResolvePressure
    \/ ResolveRain
    \/ ResolveSpeed
    \/ GetSourceDirectory
    \/ ListMonthlyLogs
    \/ ConstructAnother

SpecInstances == Init /\ [][NextInstances]_vars

(***************************************************************************)
(* getRawData on every small file, from a state Spec reaches: the instance *)
(* has been constructed with valid units over a directory of one monthly   *)
(* log, and period_generator has yielded that log.                         *)
(***************************************************************************)
\* _header_map once the four checks of __init__ have passed for these units
HeaderMapFor(units) ==
    SetUnits(SetUnits(SetUnits(SetUnits(SetUnits(InitialHeaderMap,
        TemperatureFields, units.temperature),
        PressureFields, units.pressure),
        {"midnight_rain"}, units.rain),
        {"cur_rain_rate"}, rain_units_dict[units.rain]),
        SpeedFields, units.speed)

\* the configurations of these runs: every decimal separator and field
\* delimiter of the model, one choice of valid units
CleanupConfigs ==
    { c \in Configs :
        /\ c.hasUnits /\ c.hasDirectory
        /\ c.units = [temperature |-> "degree_C", pressure |-> "hPa",
                      rain |-> "mm", speed |-> "km_per_hour"] }

OneLog == LogName(<<"J", "a", "n", "1", "6">>)

InitCleanup ==
    /\ cfg \in CleanupConfigs
    /\ headerMap = HeaderMapFor(cfg.units)
    /\ others = << >>
    /\ decimal = GetOr(cfg.decimal, ".")
    /\ delimiter = GetOr(cfg.delimiter, ",")
    /\ map = NoMap
    /\ source = SourceDirectory
    /\ month_log_list = <<OneLog>>
    /\ log_list = <<OneLog>>
    /\ pc = "yielded"
    /\ err = NoError
    /\ idx = 1
    /\ first_period = TRUE
    /\ last_period = TRUE
    /\ yielded = <<[period |-> OneLog, first_period |-> TRUE, last_period |-> TRUE]>>
    /\ raw_data = << >>
    /\ clean_data = << >>
    /\ reader = << >>
    /\ mapBuilds = 0
    /\ globCalls = 1
    /\ fileOpens = 0

NextCleanup == GetRawData(Contents(MaxChars, MaxRows))

SpecCleanup == InitCleanup /\ [][NextCleanup]_vars

(***************************************************************************)
(* The properties checked.                                                 *)
(***************************************************************************)
\* the file names period_generator has yielded, in the order of the yields
YieldedPeriods == [i \in 1..Len(yielded) |-> yielded[i].period]

\* file f comes strictly before file g in the order of the sort key: the
\* two-digit year fragment first, the month number second
SortKeyBefore(f, g) ==
    \/ StrLess(YearFragment(f), YearFragment(g))
    \/ /\ YearFragment(f) = YearFragment(g)
       /\ TmMon(MonthFragment(f)) < TmMon(MonthFragment(g))

\* the N files of the listing are yielded, each exactly once
EachFileYieldedOnce ==
    /\ Len(yielded) = Len(month_log_list)
    /\ \A i \in 1..Len(month_log_list) :
         Cardinality({ j \in 1..Len(yielded) : YieldedPeriods[j] = month_log_list[i] }) = 1

\* C1 as stated: when period_generator is exhausted it has yielded the N
\* files of the listing, each exactly once, in STRICTLY ascending order of
\* the sort key, whatever the order of the listing.
C1_StrictlyAscending ==
    pc = "done" =>
        /\ EachFileYieldedOnce
        /\ \A i, j \in 1..Len(yielded) :
             i < j => SortKeyBefore(YieldedPeriods[i], YieldedPeriods[j])

\* C1 as amended: when period_generator is exhausted it has yielded the N
\* files of the listing, each exactly once, in non-decreasing order of the
\* sort key (no file comes after a file with a greater key), whatever the
\* order of the listing.
C1_NonDecreasing ==
    pc = "done" =>
        /\ EachFileYieldedOnce
        /\ \A i, j \in 1..Len(yielded) :
             i < j => ~SortKeyBefore(YieldedPeriods[j], YieldedPeriods[i])

\* a full iteration over three files that the listing returned in an order
\* that is not the sorted one
C1_Witness ==
    /\ pc = "done"
    /\ Len(yielded) = 3
    /\ month_log_list # log_list

\* C2: over a full iteration of period_generator on N >= 1 periods,
\* first_period is true at exactly one yield, the first, and last_period at
\* exactly one yield, the last (both at the single yield when N = 1).
C2_OneFirstOneLast ==
    pc = "done" =>
        /\ Len(yielded) >= 1
        /\ { i \in 1..Len(yielded) : yielded[i].first_period } = {1}
        /\ { i \in 1..Len(yielded) : yielded[i].last_period } = {Len(yielded)}

\* a full iteration over two logs of the same month (Jan16, jan16) and more
C2_Witness ==
    /\ pc = "done"
    /\ Len(yielded) >= 2
    /\ \E i, j \in 1..Len(yielded) :
         /\ i # j
         /\ ~SortKeyBefore(YieldedPeriods[i], YieldedPeriods[j])
         /\ ~SortKeyBefore(YieldedPeriods[j], YieldedPeriods[i])

\* the getRawData calls that have returned so far in this run
CallsReturned == IF pc \in {"yielded", "failed"} /\ idx > 0 THEN idx - 1 ELSE idx

NotBareNewline(row) == row # <<"\n">>

\* a line of white space alone
IsBlank(row) == \A i \in 1..Len(row) : row[i] \in {" ", "\n"}

\* a line that holds something other than white space
NotBlank(row) == ~IsBlank(row)

\* the line with a full stop for every decimal separator
WithFullStops(row) == [i \in 1..Len(row) |-> IF row[i] = decimal THEN "." ELSE row[i]]

\* the character occurs in the line
Occurs(ch, row) == \E i \in 1..Len(row) : row[i] = ch

\* the lines of the file that getRawData cleans: all but the bare newlines
LinesCleaned == SelectSeq(raw_data, NotBareNewline)

\* C4 as stated: for every line cleaned, splitting the cleaned line by the
\* delimiter yields one field fewer than splitting the original line, the
\* first two original fields (decimal separators as full stops) merged into
\* one token.
C4_OneFieldFewer ==
    pc = "processed" =>
        /\ Len(clean_data) = Len(LinesCleaned)
        /\ \A k \in 1..Len(clean_data) :
             LET before == Split(LinesCleaned[k], delimiter)
                 after  == Split(clean_data[k], delimiter)
             IN  /\ Len(after) = Len(before) - 1
                 /\ after[1] = WithFullStops(before[1]) \o <<" ">> \o WithFullStops(before[2])

\* C4 as amended: getRawData replaces exactly the first occurrence of the
\* field delimiter in the line whose decimal separators have become full
\* stops, and keeps the later ones.  When that line holds the delimiter and
\* the delimiter is not itself a space, splitting the cleaned line by the
\* delimiter yields one field fewer than splitting that line, its first two
\* fields merged into one token and every later field as it was; otherwise
\* the cleaned line is that line.
C4_FirstDelimiterOnly ==
    pc = "processed" =>
        /\ Len(clean_data) = Len(LinesCleaned)
        /\ \A k \in 1..Len(clean_data) :
             LET line   == WithFullStops(LinesCleaned[k])
                 before == Split(line, delimiter)
                 after  == Split(clean_data[k], delimiter)
             IN  IF Occurs(delimiter, line) /\ delimiter # " "
                 THEN /\ Len(after) = Len(before) - 1
                      /\ after = <<before[1] \o <<" ">> \o before[2]>>
                                 \o SubSeq(before, 3, Len(before))
                 ELSE clean_data[k] = line

\* a line of three fields, under the default separator and delimiter
C4_Witness ==
    /\ pc = "processed"
    /\ decimal = "." /\ delimiter = ","
    /\ raw_data = << <<",", "5", ",", "\n">> >>
    /\ clean_data = << <<" ", "5", ",", "\n">> >>

C9_BlankLinesDropped ==
    pc = "processed" =>
        LET nonBlank == SelectSeq([i \in 1..Len(raw_data) |-> WithFullStops(raw_data[i])],
                                  NotBlank)
        IN  /\ Len(clean_data) = Len(nonBlank)
            /\ \A k \in 1..Len(clean_data) :
                 clean_data[k] = MergeDateTime(nonBlank[k], delimiter)

\* the configuration declares no unit for the quantity, or one that is not
\* in the quantity's allowed set
BadUnit(q) == ~cfg.hasUnits \/ cfg.units[q] \notin AllowedUnits(q)

\* the first quantity, in the order __init__ reads them, whose unit is bad
FirstBadQuantity ==
    Quantities[CHOOSE i \in 1..4 :
                  BadUnit(Quantities[i]) /\ \A j \in 1..(i - 1) : ~BadUnit(Quantities[j])]

\* construction has failed on a unit
UnitErrorRaised == pc = "failed" /\ err.kind = "UnitError"

\* construction has gone past the four unit checks
PastUnitResolution ==
    \/ pc \in {"directory", "glob", "constructed", "yielded", "processed", "done"}
    \/ pc = "failed" /\ err.kind # "UnitError"

\* C6: construction goes past unit resolution exactly when each of the four
\* quantities has a declared unit of its allowed set, and then the header map
\* binds the declared units and no others; otherwise it fails with a unit
\* error that names a quantity whose unit is missing or not allowed (the
\* first one in the order temperature, pressure, rain, speed).
C6_UnitsResolvedOrUnitError ==
    /\ PastUnitResolution =>
         /\ \A i \in 1..4 : ~BadUnit(Quantities[i])
         /\ headerMap = HeaderMapFor(cfg.units)
    /\ UnitErrorRaised =>
         /\ \E i \in 1..4 : BadUnit(Quantities[i])
         /\ err.quantity = FirstBadQuantity
    /\ (pc = "pressure" => ~BadUnit("temperature"))
    /\ (pc = "rain" => ~BadUnit("temperature") /\ ~BadUnit("pressure"))
    /\ (pc = "speed" => ~BadUnit("temperature") /\ ~BadUnit("pressure") /\ ~BadUnit("rain"))

\* a [Units] section with no speed: the error names speed
C6_Witness ==
    /\ UnitErrorRaised
    /\ cfg.hasUnits
    /\ cfg.units.speed = None
    /\ err.quantity = "speed"

\* construction has failed on the configuration
ConfigurationErrorRaised ==
    pc = "failed" /\ err.kind \in {"UnitError", "ViolatedPrecondition"}

\* C7: the directory is listed only once the four unit declarations and the
\* directory setting have passed their checks, so a configuration error is
\* raised with no directory listed; and no period file is opened before
\* construction has ended, whether it succeeds or fails.
C7_ConfigurationBeforeListing ==
    /\ globCalls > 0 =>
         /\ \A i \in 1..4 : ~BadUnit(Quantities[i])
         /\ cfg.hasDirectory
         /\ source = SourceDirectory
    /\ ConfigurationErrorRaised => globCalls = 0
    /\ (idx = 0 => fileOpens = 0)

\* valid units and no 'directory' setting: the last configuration check fails
C7_Witness ==
    /\ pc = "failed"
    /\ err.kind = "ViolatedPrecondition"
    /\ \A i \in 1..4 : ~BadUnit(Quantities[i])
    /\ globCalls = 0

\* C8: a getRawData call that fails has found its period file missing or
\* unreadable, fails with WeeImportIOError naming that path, returns no rows
\* and has not assigned the field map.
C8_SourceIOError ==
    (pc = "failed" /\ idx > 0) =>
        /\ err.kind = "WeeImportIOError"
        /\ err.path = log_list[idx]
        /\ reader = << >>
        /\ mapBuilds = idx - 1

\* the units the header map must bind for an instance that declared these
BindsDeclaredUnits(units) ==
    \A f \in TemperatureFields \cup PressureFields \cup SpeedFields
             \cup {"midnight_rain", "cur_rain_rate"} :
        headerMap[f] = HeaderMapFor(units)[f]

\* C10: whatever instances are constructed or fail to be constructed, the
\* header map each constructed instance sees binds the units of that
\* instance's own configuration.
C10_OwnUnitsBound ==
    /\ \A i \in 1..Len(others) :
         others[i].constructed => BindsDeclaredUnits(others[i].units)
    /\ pc = "constructed" => BindsDeclaredUnits(cfg.units)

=============================================================================
